---- MODULE Spec2Model ----
(***************************************************************************)
(* Editorial workflow of the scm_dashboard repository: the Supabase tables *)
(* (user_profiles, articles, activity_logs) with their row level security  *)
(* policies, and the dashboard pages that read and write them directly     *)
(* from the browser.  A client is one open browser tab: it holds the       *)
(* session user, the profile useAuth fetched when the page mounted and the *)
(* article rows the page fetched, and its handlers write to the tables     *)
(* with no other precondition than the ones in the handler's code.         *)
(***************************************************************************)
EXTENDS Integers, Sequences, FiniteSets, TLC

\* ------------------------------------------------------------------ bounds
MaxTime == 1
MaxLog == 3
MaxRoleLog == 1
MaxTitleLen == 3
MaxLifeLog == 6
MaxFetch == 2
MaxViewFetch == 1

\* .limit(100) of the activity log listing
LogLimit == 100

\* ------------------------------------------------------------- value sets
Users == {"u1", "u2", "u3"}
Clients == {"c1", "c2"}
ArticleSeq == <<"a1", "a2">>
ArticleIds == {ArticleSeq[i] : i \in 1..Len(ArticleSeq)}

UserRole == {"author", "admin", "super_admin"}
ArticleStatus == {"draft", "pending_review", "approved", "rejected", "published"}

Null == "null"
NoRow == "norow"
Times == 0..MaxTime

Titles == {<<"a">>, <<"B">>}
FormTitles == Titles \cup {<< >>}
Notes == {"", "needs sources"}

\* the titles the slug is checked on: every string of at most MaxTitleLen
\* characters over SlugAlphabet, and "Hello World!"
SlugAlphabet == {"a", "B", "1", " ", "!"}
HelloWorld == <<"H", "e", "l", "l", "o", " ", "W", "o", "r", "l", "d", "!">>
SlugTitles ==
    (UNION {[1..k -> SlugAlphabet] : k \in 1..MaxTitleLen}) \cup {HelloWorld}

\* --------------------------------------------------------------- variables
VARIABLES
    user_profiles,   \* table user_profiles: id -> role
    articles,        \* table articles: id -> row, for the rows that exist
    nextId,          \* index in ArticleSeq of the next generated article id
    activity_logs,   \* table activity_logs, in insertion order
    now,             \* the clock read by new Date() and NOW()
    page,            \* per client: the mounted page and what it fetched
    toast            \* what the last handler call reported: toast.success or toast.error

vars == <<user_profiles, articles, nextId, activity_logs, now, page, toast>>

\* ----------------------------------------------------------- generateSlug
LowerCase == {"a", "b", "d", "e", "h", "l", "o", "r", "w"}
UpperCase == {"A", "B", "H", "W"}
Digits == {"1"}
WhiteSpace == {" "}
Punctuation == {"!", "-"}

toLowerCase(ch) ==
    IF ch = "A" THEN "a"
    ELSE IF ch = "B" THEN "b"
    ELSE IF ch = "H" THEN "h"
    ELSE IF ch = "W" THEN "w"
    ELSE ch

RECURSIVE ReplaceSpaceRuns(_)
ReplaceSpaceRuns(s) ==
    IF s = << >> THEN << >>
    ELSE IF Head(s) \in WhiteSpace
         THEN IF Len(s) > 1 /\ s[2] \in WhiteSpace
              THEN ReplaceSpaceRuns(Tail(s))
              ELSE <<"-">> \o ReplaceSpaceRuns(Tail(s))
         ELSE <<Head(s)>> \o ReplaceSpaceRuns(Tail(s))

RECURSIVE TrimLeft(_)
TrimLeft(s) ==
    IF s # << >> /\ Head(s) \in WhiteSpace THEN TrimLeft(Tail(s)) ELSE s

RECURSIVE TrimRight(_)
TrimRight(s) ==
    IF s # << >> /\ s[Len(s)] \in WhiteSpace
    THEN TrimRight(SubSeq(s, 1, Len(s) - 1)) ELSE s

trim(s) == TrimRight(TrimLeft(s))

\* a slug function that forgets to lowercase the title
generateSlugKeepsCase(title) ==
    LET kept == SelectSeq(title, LAMBDA ch : ch \in LowerCase \cup UpperCase
                                                   \cup Digits \cup WhiteSpace)
    IN  trim(ReplaceSpaceRuns(kept))

generateSlug(title) ==
    LET lowered == [i \in 1..Len(title) |-> toLowerCase(title[i])]
        kept == SelectSeq(lowered, LAMBDA ch : ch \in LowerCase \cup Digits \cup WhiteSpace)
    IN  trim(ReplaceSpaceRuns(kept))

\* ------------------------------------------------- row level security (003)
IsAdminRole(uid) == user_profiles[uid] \in {"admin", "super_admin"}
IsSuperAdminRole(uid) == user_profiles[uid] = "super_admin"

\* "Users can update their own profile", "Super admins can update any profile"
RlsProfileUpdate(uid, id) == uid = id \/ IsSuperAdminRole(uid)

\* "Authors can view their own articles", "Admins can view all articles",
\* "Published articles are public"
RlsArticleSelect(uid, row) ==
    row.author_id = uid \/ IsAdminRole(uid) \/ row.status = "published"

\* "Authors can create articles", "Admins can view all articles" (FOR ALL)
RlsArticleInsert(uid, row) == row.author_id = uid \/ IsAdminRole(uid)

\* "Authors can update their own articles", "Admins can view all articles" (FOR ALL)
RlsArticleUpdate(uid, row) == row.author_id = uid \/ IsAdminRole(uid)

\* only "Admins can view all articles" (FOR ALL) covers DELETE
RlsArticleDelete(uid, row) == IsAdminRole(uid)

\* ------------------------------------------------------ table operations
\* an update that also makes the caller the owner of the row
ArticleUpdatedTakesOwnership(uid, id, patch) ==
    IF id \in DOMAIN articles /\ RlsArticleUpdate(uid, articles[id])
    THEN [articles EXCEPT ![id] =
            [f \in DOMAIN articles[id] |->
                IF f = "author_id" THEN uid
                ELSE IF f \in DOMAIN patch THEN patch[f] ELSE articles[id][f]]]
    ELSE articles

\* supabase.from("articles").update(patch).eq("id", id): the rows the policy
\* hides are skipped without an error
ArticleUpdated(uid, id, patch) ==
    IF id \in DOMAIN articles /\ RlsArticleUpdate(uid, articles[id])
    THEN [articles EXCEPT ![id] =
            [f \in DOMAIN articles[id] |->
                IF f \in DOMAIN patch THEN patch[f] ELSE articles[id][f]]]
    ELSE articles

\* supabase.from("articles").delete().eq("id", id)
ArticleDeleted(uid, id) ==
    IF id \in DOMAIN articles /\ RlsArticleDelete(uid, articles[id])
    THEN [x \in DOMAIN articles \ {id} |-> articles[x]]
    ELSE articles

\* a log_activity that keeps only the newest row
log_activityOverwrites(ok, p_user_id, p_action, p_resource_type, p_resource_id) ==
    IF ok
    THEN << [user_id |-> p_user_id, action |-> p_action,
             resource_type |-> p_resource_type,
             resource_id |-> p_resource_id, created_at |-> now] >>
    ELSE activity_logs

\* log_activity(p_user_id, p_action, p_resource_type, p_resource_id): inserts
\* one row; when the insert raises, the function swallows the exception
log_activity(ok, p_user_id, p_action, p_resource_type, p_resource_id) ==
    IF ok
    THEN Append(activity_logs,
                [user_id |-> p_user_id, action |-> p_action,
                 resource_type |-> p_resource_type,
                 resource_id |-> p_resource_id, created_at |-> now])
    ELSE activity_logs

\* what a select of the articles table tbl returns to uid, as id -> status
FetchedFrom(tbl, uid, ids) ==
    [id \in ArticleIds |->
        IF id \in ids /\ id \in DOMAIN tbl /\ RlsArticleSelect(uid, tbl[id])
        THEN tbl[id].status ELSE NoRow]

NoSnap == [id \in ArticleIds |-> NoRow]

\* no page is mounted; the fields after logs are the state of useAuth and of
\* the page's fetches: the session of the Supabase client, the id of the
\* profile held, loading, whether getSession() is pending, and the calls of
\* fetchProfile and fetchArticle in flight
NoPage ==
    [kind |-> "none", user |-> Null, role |-> Null, id |-> Null, snap |-> NoSnap,
     logs |-> << >>,
     session |-> Null, profile_id |-> Null, loading |-> TRUE, getSession |-> FALSE,
     fetchProfile |-> << >>, fetchArticle |-> << >>]

\* a page mounts: useAuth resolves the session and fetches the profile, then
\* the page's effect fetches its rows
Mounted(kind, uid, id, snap) ==
    [kind |-> kind, user |-> uid, role |-> user_profiles[uid], id |-> id, snap |-> snap,
     logs |-> << >>,
     session |-> uid, profile_id |-> uid, loading |-> FALSE, getSession |-> FALSE,
     fetchProfile |-> << >>, fetchArticle |-> << >>]

\* hasRole(["admin", "super_admin"]) on the profile the page holds
isAdmin(p) == p.role \in {"admin", "super_admin"}

\* hasRole("super_admin") on the profile the page holds
isSuperAdmin(p) == p.role = "super_admin"

\* ------------------------------------------------------------------- Init
Init ==
    /\ user_profiles = ("u1" :> "author") @@ ("u2" :> "admin") @@ ("u3" :> "super_admin")
    /\ articles = << >>
    /\ nextId = 1
    /\ activity_logs = << >>
    /\ now = 0
    /\ page = [c \in Clients |-> NoPage]
    /\ toast = "none"

\* ------------------------------------------------------------------ clock
Tick ==
    /\ now < MaxTime
    /\ now' = now + 1
    /\ UNCHANGED <<user_profiles, articles, nextId, activity_logs, page, toast>>

\* ------------------------------------------------------ CreateArticlePage
\* a create handler on a table whose slug column is not UNIQUE: the insert
\* of a second row with the same slug goes through
handleSubmitNoUniqueSlug(uid, status, title, logOk) ==
    LET row == [title |-> title, slug |-> generateSlug(title), author_id |-> uid,
                status |-> status, published_at |-> << >>,
                updated_at |-> now, reviewed_by |-> Null, review_notes |-> Null]
    IN  /\ title # << >>
        /\ nextId <= Len(ArticleSeq)
        /\ articles' = articles @@ (ArticleSeq[nextId] :> row)
        /\ nextId' = nextId + 1
        /\ activity_logs' =
             log_activity(logOk, uid,
                          IF status = "draft" THEN "article_drafted"
                                              ELSE "article_submitted",
                          "article", ArticleSeq[nextId])
        /\ toast' = "success"
        /\ UNCHANGED <<user_profiles, now, page>>

\* handleSubmit(status) of the create page; the page holds nothing but the
\* profile of the signed-in user uid
handleSubmit(uid, status, title, logOk) ==
    LET slug == generateSlug(title)
        row == [title |-> title, slug |-> slug, author_id |-> uid,
                status |-> status, published_at |-> << >>,
                updated_at |-> now, reviewed_by |-> Null, review_notes |-> Null]
        error == \/ \E x \in DOMAIN articles : articles[x].slug = slug
                 \/ ~RlsArticleInsert(uid, row)
    IN  /\ title # << >>
        /\ nextId <= Len(ArticleSeq)
        /\ IF error
           THEN /\ toast' = "error"
                /\ UNCHANGED <<articles, nextId, activity_logs>>
           ELSE /\ articles' = articles @@ (ArticleSeq[nextId] :> row)
                /\ nextId' = nextId + 1
                /\ activity_logs' =
                     log_activity(logOk, uid,
                                  IF status = "draft" THEN "article_drafted"
                                                      ELSE "article_submitted",
                                  "article", ArticleSeq[nextId])
                /\ toast' = "success"
        /\ UNCHANGED <<user_profiles, now, page>>

\* -------------------------------------------------------- ArticleEditPage
\* the mount effect and fetchArticle(articleId) of the edit page
OpenEdit(c, uid, id) ==
    LET visible == id \in DOMAIN articles /\ RlsArticleSelect(uid, articles[id])
        editable == /\ visible
                    /\ articles[id].author_id = uid
                    /\ articles[id].status \in {"draft", "rejected"}
    IN  /\ page' = [page EXCEPT ![c] =
                      IF editable
                      THEN Mounted("edit", uid, id, FetchedFrom(articles, uid, {id}))
                      ELSE NoPage]
        /\ UNCHANGED <<user_profiles, articles, nextId, activity_logs, now, toast>>

\* an edit handler whose update leaves out the status column
handleSaveKeepsStatus(c, status, title, logOk) ==
    LET p == page[c]
    IN  /\ p.kind = "edit"
        /\ IF trim(title) = << >>
           THEN /\ toast' = "error"
                /\ UNCHANGED <<articles, activity_logs, page>>
           ELSE /\ articles' = ArticleUpdated(p.user, p.id,
                                  [title |-> trim(title), updated_at |-> now])
                /\ activity_logs' =
                     log_activity(logOk, p.user,
                                  IF status = "draft" THEN "article_updated"
                                                      ELSE "article_submitted",
                                  "article", p.id)
                /\ toast' = "success"
                /\ page' = [page EXCEPT ![c] = NoPage]
        /\ UNCHANGED <<user_profiles, nextId, now>>

\* an edit handler that wipes the previous review when the article is saved
handleSaveClearsReview(c, status, title, logOk) ==
    LET p == page[c]
    IN  /\ p.kind = "edit"
        /\ IF trim(title) = << >>
           THEN /\ toast' = "error"
                /\ UNCHANGED <<articles, activity_logs, page>>
           ELSE /\ articles' = ArticleUpdated(p.user, p.id,
                                  [title |-> trim(title), status |-> status,
                                   updated_at |-> now, reviewed_by |-> Null,
                                   review_notes |-> Null])
                /\ activity_logs' =
                     log_activity(logOk, p.user,
                                  IF status = "draft" THEN "article_updated"
                                                      ELSE "article_submitted",
                                  "article", p.id)
                /\ toast' = "success"
                /\ page' = [page EXCEPT ![c] = NoPage]
        /\ UNCHANGED <<user_profiles, nextId, now>>

\* an edit handler that derives the slug again from the edited title
handleSaveRegeneratesSlug(c, status, title, logOk) ==
    LET p == page[c]
    IN  /\ p.kind = "edit"
        /\ IF trim(title) = << >>
           THEN /\ toast' = "error"
                /\ UNCHANGED <<articles, activity_logs, page>>
           ELSE /\ articles' = ArticleUpdated(p.user, p.id,
                                  [title |-> trim(title), status |-> status,
                                   updated_at |-> now,
                                   slug |-> generateSlug(trim(title))])
                /\ activity_logs' =
                     log_activity(logOk, p.user,
                                  IF status = "draft" THEN "article_updated"
                                                      ELSE "article_submitted",
                                  "article", p.id)
                /\ toast' = "success"
                /\ page' = [page EXCEPT ![c] = NoPage]
        /\ UNCHANGED <<user_profiles, nextId, now>>

\* handleSave(status) of the edit page
handleSave(c, status, title, logOk) ==
    LET p == page[c]
    IN  /\ p.kind = "edit"
        /\ IF trim(title) = << >>
           THEN /\ toast' = "error"
                /\ UNCHANGED <<articles, activity_logs, page>>
           ELSE /\ articles' = ArticleUpdated(p.user, p.id,
                                  [title |-> trim(title), status |-> status,
                                   updated_at |-> now])
                /\ activity_logs' =
                     log_activity(logOk, p.user,
                                  IF status = "draft" THEN "article_updated"
                                                      ELSE "article_submitted",
                                  "article", p.id)
                /\ toast' = "success"
                /\ page' = [page EXCEPT ![c] = NoPage]
        /\ UNCHANGED <<user_profiles, nextId, now>>

\* ------------------------------------- pages holding the review handlers
\* AdminArticlesPage (admin/articles/page.tsx): mount effect and fetchArticles
OpenAdmin(c, uid) ==
    /\ page' = [page EXCEPT ![c] =
                  Mounted("admin", uid, Null,
                          IF IsAdminRole(uid)
                          THEN FetchedFrom(articles, uid, ArticleIds) ELSE NoSnap)]
    /\ UNCHANGED <<user_profiles, articles, nextId, activity_logs, now, toast>>

\* ArticleViewPage (articles/[id]/page.tsx): mount effect and fetchArticle
OpenView(c, uid, id) ==
    LET visible == id \in DOMAIN articles /\ RlsArticleSelect(uid, articles[id])
        allowed == visible /\ (articles[id].author_id = uid \/ IsAdminRole(uid))
    IN  /\ page' = [page EXCEPT ![c] =
                      IF allowed
                      THEN Mounted("view", uid, id, FetchedFrom(articles, uid, {id}))
                      ELSE NoPage]
        /\ UNCHANGED <<user_profiles, articles, nextId, activity_logs, now, toast>>

\* AdminArticlesPage (admin/logs/page.tsx): mount effect and fetchArticles
OpenReview(c, uid) ==
    LET listed == {id \in DOMAIN articles :
                     articles[id].status \in {"pending_review", "approved", "rejected"}}
    IN  /\ page' = [page EXCEPT ![c] =
                      Mounted("review", uid, Null,
                              IF IsAdminRole(uid)
                              THEN FetchedFrom(articles, uid, listed) ELSE NoSnap)]
        /\ UNCHANGED <<user_profiles, articles, nextId, activity_logs, now, toast>>

\* the refetch a review page runs after a successful write
Refetched(p, tbl) ==
    IF p.kind = "view"
    THEN FetchedFrom(tbl, p.user, {p.id})
    ELSE IF p.kind = "review"
         THEN FetchedFrom(tbl, p.user,
                 {id \in DOMAIN tbl :
                    tbl[id].status \in {"pending_review", "approved", "rejected"}})
         ELSE FetchedFrom(tbl, p.user, ArticleIds)

\* the Approve, Reject and Publish buttons are rendered for a page whose
\* profile is admin or super_admin, on a row it shows with the given status
Rendered(p, id, status) ==
    /\ p.kind \in {"admin", "view", "review"}
    /\ isAdmin(p)
    /\ p.snap[id] = status

\* a review handler that treats a failed log call as a failure of the review:
\* it undoes the update and reports an error
handleReviewActionRollsBack(c, id, status, reviewNotes, logOk) ==
    LET p == page[c]
    IN  /\ Rendered(p, id, "pending_review")
        /\ articles' = IF logOk
                       THEN ArticleUpdated(p.user, id,
                               [status |-> status, reviewed_by |-> p.user,
                                review_notes |-> reviewNotes, updated_at |-> now])
                       ELSE articles
        /\ activity_logs' =
             log_activity(logOk, p.user,
                          IF status = "approved" THEN "article_approved"
                                                 ELSE "article_rejected",
                          "article", id)
        /\ toast' = IF logOk THEN "success" ELSE "error"
        /\ page' = [page EXCEPT ![c].snap = Refetched(p, articles')]
        /\ UNCHANGED <<user_profiles, nextId, now>>

\* handleReviewAction(articleId, status) of the admin list and of the view
\* page, reviewArticle(articleId, status) of the second admin list
handleReviewAction(c, id, status, reviewNotes, logOk) ==
    LET p == page[c]
    IN  /\ Rendered(p, id, "pending_review")
        /\ articles' = ArticleUpdated(p.user, id,
                          [status |-> status, reviewed_by |-> p.user,
                           review_notes |-> reviewNotes, updated_at |-> now])
        /\ activity_logs' =
             log_activity(logOk, p.user,
                          IF status = "approved" THEN "article_approved"
                                                 ELSE "article_rejected",
                          "article", id)
        /\ toast' = "success"
        /\ page' = [page EXCEPT ![c].snap = Refetched(p, articles')]
        /\ UNCHANGED <<user_profiles, nextId, now>>

\* handlePublish of the admin list and of the view page
handlePublish(c, id, logOk) ==
    LET p == page[c]
    IN  /\ p.kind \in {"admin", "view"}
        /\ Rendered(p, id, "approved")
        /\ articles' = ArticleUpdated(p.user, id,
                          [status |-> "published", published_at |-> <<now>>,
                           updated_at |-> now])
        /\ activity_logs' =
             log_activity(logOk, p.user, "article_published", "article", id)
        /\ toast' = "success"
        /\ page' = [page EXCEPT ![c].snap = Refetched(p, articles')]
        /\ UNCHANGED <<user_profiles, nextId, now>>

\* publishArticle(articleId) of the second admin list: no updated_at, no log
publishArticle(c, id) ==
    LET p == page[c]
    IN  /\ p.kind = "review"
        /\ Rendered(p, id, "approved")
        /\ articles' = ArticleUpdated(p.user, id,
                          [status |-> "published", published_at |-> <<now>>])
        /\ toast' = "success"
        /\ page' = [page EXCEPT ![c].snap = Refetched(p, articles')]
        /\ UNCHANGED <<user_profiles, nextId, activity_logs, now>>

\* ------------------------------------------------------------ ArticlesPage
\* mount effect and fetchArticles of either "My Articles" page: the rows
\* whose author_id is the signed-in user
OpenArticles(c, uid, kind) ==
    LET own == {id \in DOMAIN articles : articles[id].author_id = uid}
    IN  /\ page' = [page EXCEPT ![c] =
                      Mounted(kind, uid, Null, FetchedFrom(articles, uid, own))]
        /\ UNCHANGED <<user_profiles, articles, nextId, activity_logs, now, toast>>

\* deleteArticle(id) of the first "My Articles" page: the button is rendered
\* for every listed row; the row leaves the local list, nothing is logged
deleteArticleUnlogged(c, id) ==
    LET p == page[c]
    IN  /\ p.kind = "articles_v1"
        /\ p.snap[id] # NoRow
        /\ articles' = ArticleDeleted(p.user, id)
        /\ page' = [page EXCEPT ![c].snap[id] = NoRow]
        /\ UNCHANGED <<user_profiles, nextId, activity_logs, now, toast>>

\* deleteArticle(articleId, title) of the second "My Articles" page: the
\* menu item is rendered for draft and rejected rows
deleteArticle(c, id, logOk) ==
    LET p == page[c]
        own(tbl) == {x \in DOMAIN tbl : tbl[x].author_id = p.user}
    IN  /\ p.kind = "articles_v2"
        /\ p.snap[id] \in {"draft", "rejected"}
        /\ articles' = ArticleDeleted(p.user, id)
        /\ activity_logs' =
             log_activity(logOk, p.user, "article_deleted", "article", id)
        /\ toast' = "success"
        /\ page' = [page EXCEPT ![c].snap =
                      FetchedFrom(articles', p.user, own(articles'))]
        /\ UNCHANGED <<user_profiles, nextId, now>>

\* ------------------------------------------------------ UserManagementPage
OpenUsers(c, uid) ==
    /\ page' = [page EXCEPT ![c] = Mounted("users", uid, Null, NoSnap)]
    /\ UNCHANGED <<user_profiles, articles, nextId, activity_logs, now, toast>>

\* updateUserRole(userId, newRole)
updateUserRole(c, userId, newRole, logOk) ==
    LET p == page[c]
    IN  /\ p.kind = "users"
        /\ isSuperAdmin(p)
        /\ user_profiles' =
             IF RlsProfileUpdate(p.user, userId)
             THEN [user_profiles EXCEPT ![userId] = newRole]
             ELSE user_profiles
        /\ activity_logs' =
             log_activity(logOk, p.user, "user_role_updated", "user", userId)
        /\ toast' = "success"
        /\ UNCHANGED <<articles, nextId, now, page>>

\* -------------------------------------------------------- ActivityLogsPage
\* "Users can view their own activity", "Super admins can view all activity"
RlsLogSelect(uid, row) == row.user_id = uid \/ IsSuperAdminRole(uid)

\* the page mounts and useAuth resolves: the profile of the signed-in user,
\* or no profile for a signed-out visitor
OpenLogs(c, uid) ==
    /\ page' = [page EXCEPT ![c] =
                  IF uid = Null
                  THEN [NoPage EXCEPT !.kind = "logs"]
                  ELSE Mounted("logs", uid, Null, NoSnap)]
    /\ UNCHANGED <<user_profiles, articles, nextId, activity_logs, now, toast>>

\* .limit(n)
Limit(rows, n) == SubSeq(rows, 1, IF Len(rows) < n THEN Len(rows) ELSE n)

\* .order("created_at", { ascending: false }): the orders in which the rows
\* may come back, rows with equal created_at in any order
OrderedByCreatedAtDesc(rows) ==
    { [i \in 1..Len(rows) |-> rows[f[i]]] :
        f \in { g \in [1..Len(rows) -> 1..Len(rows)] :
                  /\ \A i, j \in 1..Len(rows) : i # j => g[i] # g[j]
                  /\ \A i, j \in 1..Len(rows) :
                        i < j => rows[g[i]].created_at >= rows[g[j]].created_at } }

\* the effect of the page runs with the profile it holds: fetchLogs for a
\* super_admin profile; the select returns the rows the policies show to the
\* signed-in user
fetchLogs(c) ==
    LET p == page[c]
        shown == SelectSeq(activity_logs, LAMBDA row : RlsLogSelect(p.user, row))
    IN  /\ p.kind = "logs"
        /\ isSuperAdmin(p)
        /\ \E rows \in OrderedByCreatedAtDesc(shown) :
              page' = [page EXCEPT ![c].kind = "logs_loaded",
                                   ![c].logs = Limit(rows, LogLimit)]
        /\ UNCHANGED <<user_profiles, articles, nextId, activity_logs, now, toast>>

\* ----------------------------------------------------------------- useAuth
\* the pages whose model follows the steps of the hook one by one: a page
\* that only uses the hook, and the two versions of ArticleViewPage
HookKinds == {"hook", "view_v1", "view_v2"}

\* what a fetchProfile call can come back with: the row, PGRST116 / "does not
\* exist", or another error
FetchOutcome == {"found", "missing", "failed"}

\* a sequence without its i-th element
Without(seq, i) == SubSeq(seq, 1, i - 1) \o SubSeq(seq, i + 1, Len(seq))

\* the effect of ArticleViewPage after a render: the first version depends on
\* user and calls fetchArticle when user is set, the second depends on
\* profile and calls it when profile is set; the call keeps the user and the
\* profile of that render
PageEffect(new, userChanged, profileChanged) ==
    LET call == [user |-> new.user, profile_id |-> new.profile_id, role |-> new.role]
    IN  IF \/ new.kind = "view_v1" /\ userChanged /\ new.user # Null
           \/ new.kind = "view_v2" /\ profileChanged /\ new.profile_id # Null
        THEN [new EXCEPT !.fetchArticle = Append(@, call)]
        ELSE new

\* a page mounts in a browser whose Supabase client holds session s: useState
\* gives user = null, profile = null, loading = true, and the effect calls
\* getSession() and subscribes to the auth events
useAuth(c, kind, s, id) ==
    /\ page' = [page EXCEPT ![c] =
                  [NoPage EXCEPT !.kind = kind, !.id = id, !.session = s,
                                 !.getSession = TRUE]]
    /\ UNCHANGED <<user_profiles, articles, nextId, activity_logs, now, toast>>

\* getSession().then(...): setUser, then fetchProfile for a user and
\* setLoading(false) for none; fresh tells whether the user object differs
\* from the one the hook holds
getSession(c, fresh) ==
    LET p == page[c]
        new == [p EXCEPT !.getSession = FALSE,
                         !.user = p.session,
                         !.fetchProfile = IF p.session # Null
                                          THEN Append(@, p.session) ELSE @,
                         !.loading = IF p.session = Null THEN FALSE ELSE @]
    IN  /\ p.kind \in HookKinds
        /\ p.getSession
        /\ page' = [page EXCEPT ![c] =
                      PageEffect(new, new.user # p.user \/ fresh, FALSE)]
        /\ UNCHANGED <<user_profiles, articles, nextId, activity_logs, now, toast>>

\* the onAuthStateChange callback, called with session s
onAuthStateChange(c, s, fresh) ==
    LET p == page[c]
        new == IF s # Null
               THEN [p EXCEPT !.session = s, !.user = s,
                              !.fetchProfile = Append(@, s)]
               ELSE [p EXCEPT !.session = Null, !.user = Null, !.role = Null,
                              !.profile_id = Null, !.loading = FALSE]
    IN  /\ p.kind \in HookKinds
        /\ page' = [page EXCEPT ![c] =
                      PageEffect(new, new.user # p.user \/ fresh, FALSE)]
        /\ UNCHANGED <<user_profiles, articles, nextId, activity_logs, now, toast>>

\* a fetchProfile that leaves through its early return without the finally
fetchProfileReturnsEarly(c, i, outcome) ==
    LET p == page[c]
        userId == p.fetchProfile[i]
        new == IF outcome = "found"
               THEN [p EXCEPT !.fetchProfile = Without(@, i), !.loading = FALSE,
                              !.role = user_profiles[userId], !.profile_id = userId]
               ELSE IF outcome = "missing"
                    THEN [p EXCEPT !.fetchProfile = Without(@, i),
                                   !.role = "author", !.profile_id = userId]
                    ELSE [p EXCEPT !.fetchProfile = Without(@, i), !.loading = FALSE]
    IN  /\ p.kind \in HookKinds
        /\ i \in 1..Len(p.fetchProfile)
        /\ page' = [page EXCEPT ![c] = PageEffect(new, FALSE, outcome # "failed")]
        /\ UNCHANGED <<user_profiles, articles, nextId, activity_logs, now, toast>>

\* the i-th fetchProfile(userId) in flight comes back: setProfile(data) for the
\* row; the temporary author profile for PGRST116 or "does not exist"; on
\* another error the catch tests the user of the render the effect closed
\* over, which is null, and sets nothing; finally setLoading(false)
fetchProfile(c, i, outcome) ==
    LET p == page[c]
        userId == p.fetchProfile[i]
        new == IF outcome = "found"
               THEN [p EXCEPT !.fetchProfile = Without(@, i), !.loading = FALSE,
                              !.role = user_profiles[userId], !.profile_id = userId]
               ELSE IF outcome = "missing"
                    THEN [p EXCEPT !.fetchProfile = Without(@, i), !.loading = FALSE,
                                   !.role = "author", !.profile_id = userId]
                    ELSE [p EXCEPT !.fetchProfile = Without(@, i), !.loading = FALSE]
    IN  /\ p.kind \in HookKinds
        /\ i \in 1..Len(p.fetchProfile)
        /\ page' = [page EXCEPT ![c] = PageEffect(new, FALSE, outcome # "failed")]
        /\ UNCHANGED <<user_profiles, articles, nextId, activity_logs, now, toast>>

\* hasRole(roles) on the profile the hook holds
hasRole(p, roles) == p.profile_id # Null /\ p.role \in roles

\* ---------------------------------------- ArticleViewPage, fetch by fetch
\* the select of one article by the client's session; without a session only
\* "Published articles are public" applies
ArticleSelected(session, id) ==
    /\ id \in DOMAIN articles
    /\ IF session = Null
       THEN articles[id].status = "published"
       ELSE RlsArticleSelect(session, articles[id])

\* the j-th fetchArticle in flight comes back: no row is an error and a
\* redirect; with the row, the first version shows it when the user of the
\* call is the author or the profile of the call is admin or super_admin,
\* the second when the profile of the call is the author's or an admin's;
\* otherwise toast.error and a redirect
fetchArticle(c, j) ==
    LET p == page[c]
        call == p.fetchArticle[j]
        isAuthor == articles[p.id].author_id =
                       (IF p.kind = "view_v1" THEN call.user ELSE call.profile_id)
        ofAdmin == call.profile_id # Null /\ call.role \in {"admin", "super_admin"}
    IN  /\ p.kind \in {"view_v1", "view_v2"}
        /\ j \in 1..Len(p.fetchArticle)
        /\ IF ArticleSelected(p.session, p.id) /\ (isAuthor \/ ofAdmin)
           THEN /\ page' = [page EXCEPT ![c] =
                              [p EXCEPT !.fetchArticle = Without(@, j),
                                        !.snap = [NoSnap EXCEPT ![p.id] =
                                                     articles[p.id].status]]]
                /\ UNCHANGED toast
           ELSE /\ page' = [page EXCEPT ![c] = NoPage]
                /\ toast' = "error"
        /\ UNCHANGED <<user_profiles, articles, nextId, activity_logs, now>>

\* --------------------------------------------------------------- SetupPage
\* the page mounts with setupComplete = false and starts checkDatabaseStatus
OpenSetup(c, uid) ==
    /\ page' = [page EXCEPT ![c] = Mounted("setup", uid, Null, NoSnap)]
    /\ UNCHANGED <<user_profiles, articles, nextId, activity_logs, now, toast>>

\* checkDatabaseStatus resolves: the table exists, setSetupComplete(true)
checkDatabaseStatus(c) ==
    /\ page[c].kind = "setup"
    /\ page' = [page EXCEPT ![c].kind = "setup_complete"]
    /\ UNCHANGED <<user_profiles, articles, nextId, activity_logs, now, toast>>

\* runSetup, offered while setupComplete is false: the profile of the
\* signed-in user exists, so its role is set to super_admin
runSetup(c) ==
    LET uid == page[c].user
    IN  /\ page[c].kind = "setup"
        /\ user_profiles' =
             IF user_profiles[uid] # "super_admin" /\ RlsProfileUpdate(uid, uid)
             THEN [user_profiles EXCEPT ![uid] = "super_admin"]
             ELSE user_profiles
        /\ page' = [page EXCEPT ![c].kind = "setup_complete"]
        /\ UNCHANGED <<articles, nextId, activity_logs, now, toast>>

\* --------------------------------------------------------- specifications
\* The bounds of a run: at most MaxLog rows in activity_logs, one article.
OneArticle == {1, 2}
Bounded == Len(activity_logs') <= MaxLog /\ nextId' \in OneArticle

\* Inputs a specification draws when the title or the notes play no part.
OneTitle == {<<"a">>}
OneNote == {"needs sources"}

\* Authoring and the admin list: create, edit, submit, approve, reject, publish.
Next ==
    \/ Tick
    \/ /\ \E uid \in Users, status \in {"draft", "pending_review"}, title \in Titles :
            handleSubmit(uid, status, title, TRUE)
       /\ Bounded
    \/ \E c \in Clients, uid \in Users, id \in ArticleIds : OpenEdit(c, uid, id)
    \/ /\ \E c \in Clients, status \in {"draft", "pending_review"}, title \in FormTitles :
            handleSave(c, status, title, TRUE)
       /\ Bounded
    \/ \E c \in Clients, uid \in Users : OpenAdmin(c, uid)
    \/ /\ \E c \in Clients, id \in ArticleIds, status \in {"approved", "rejected"},
             reviewNotes \in OneNote :
            handleReviewAction(c, id, status, reviewNotes, TRUE)
       /\ Bounded
    \/ /\ \E c \in Clients, id \in ArticleIds : handlePublish(c, id, TRUE)
       /\ Bounded

Spec == Init /\ [][Next]_vars

\* The two admin lists side by side.
NextReview ==
    \/ Tick
    \/ /\ \E uid \in Users, status \in {"draft", "pending_review"}, title \in OneTitle :
            handleSubmit(uid, status, title, TRUE)
       /\ Bounded
    \/ \E c \in Clients, uid \in Users : OpenAdmin(c, uid)
    \/ \E c \in Clients, uid \in Users : OpenReview(c, uid)
    \/ /\ \E c \in Clients, id \in ArticleIds, status \in {"approved", "rejected"},
             reviewNotes \in Notes :
            handleReviewAction(c, id, status, reviewNotes, TRUE)
       /\ Bounded
    \/ /\ \E c \in Clients, id \in ArticleIds : handlePublish(c, id, TRUE)
       /\ Bounded
    \/ \E c \in Clients, id \in ArticleIds : publishArticle(c, id)

SpecReview == Init /\ [][NextReview]_vars

\* The "My Articles" pages and the review that moves an article on.
NextDelete ==
    \/ /\ \E uid \in Users, status \in {"draft", "pending_review"}, title \in OneTitle :
            handleSubmit(uid, status, title, TRUE)
       /\ Bounded
    \/ \E c \in Clients, uid \in Users, kind \in {"articles_v1", "articles_v2"} :
            OpenArticles(c, uid, kind)
    \/ \E c \in Clients, id \in ArticleIds : deleteArticleUnlogged(c, id)
    \/ /\ \E c \in Clients, id \in ArticleIds : deleteArticle(c, id, TRUE)
       /\ Bounded
    \/ \E c \in Clients, uid \in Users : OpenReview(c, uid)
    \/ /\ \E c \in Clients, id \in ArticleIds, status \in {"approved", "rejected"},
             reviewNotes \in OneNote :
            handleReviewAction(c, id, status, reviewNotes, TRUE)
       /\ Bounded
    \/ \E c \in Clients, id \in ArticleIds : publishArticle(c, id)

SpecDelete == Init /\ [][NextDelete]_vars

\* Role changes through user management and through the setup page.
BoundedSetup == Len(activity_logs') <= MaxRoleLog

NextSetup ==
    \/ \E c \in Clients, uid \in Users : OpenUsers(c, uid)
    \/ /\ \E c \in Clients, userId \in Users, newRole \in UserRole :
            updateUserRole(c, userId, newRole, TRUE)
       /\ BoundedSetup
    \/ \E c \in Clients, uid \in Users : OpenSetup(c, uid)
    \/ \E c \in Clients : checkDatabaseStatus(c)
    \/ \E c \in Clients : runSetup(c)

SpecSetup == Init /\ [][NextSetup]_vars

\* The article view page under a profile that user management changes.
NextRoles ==
    \/ \E c \in Clients, uid \in Users : OpenUsers(c, uid)
    \/ /\ \E c \in Clients, userId \in Users, newRole \in UserRole :
            updateUserRole(c, userId, newRole, TRUE)
       /\ Bounded
    \/ /\ \E uid \in Users, title \in OneTitle :
            handleSubmit(uid, "pending_review", title, TRUE)
       /\ Bounded
    \/ \E c \in Clients, uid \in Users, id \in ArticleIds : OpenView(c, uid, id)
    \/ /\ \E c \in Clients, id \in ArticleIds, status \in {"approved", "rejected"},
             reviewNotes \in OneNote :
            handleReviewAction(c, id, status, reviewNotes, TRUE)
       /\ Bounded
    \/ /\ \E c \in Clients, id \in ArticleIds : handlePublish(c, id, TRUE)
       /\ Bounded

SpecRoles == Init /\ [][NextRoles]_vars

\* The logging handlers with a log call that may fail, in one tab.
OneClient == {"c1"}

NextAudit ==
    \/ /\ \E uid \in Users, status \in {"draft", "pending_review"}, title \in OneTitle,
             logOk \in BOOLEAN :
            handleSubmit(uid, status, title, logOk)
       /\ Bounded
    \/ \E c \in OneClient, uid \in Users, id \in ArticleIds : OpenEdit(c, uid, id)
    \/ /\ \E c \in OneClient, status \in {"draft", "pending_review"}, title \in OneTitle,
             logOk \in BOOLEAN :
            handleSave(c, status, title, logOk)
       /\ Bounded
    \/ \E c \in OneClient, uid \in Users : OpenAdmin(c, uid)
    \/ /\ \E c \in OneClient, id \in ArticleIds, status \in {"approved", "rejected"},
             reviewNotes \in OneNote, logOk \in BOOLEAN :
            handleReviewAction(c, id, status, reviewNotes, logOk)
       /\ Bounded
    \/ /\ \E c \in OneClient, id \in ArticleIds, logOk \in BOOLEAN :
            handlePublish(c, id, logOk)
       /\ Bounded

SpecAudit == Init /\ [][NextAudit]_vars

\* The create page over the titles the slug is checked on.
NextSlug ==
    \/ /\ \E uid \in Users, status \in {"draft", "pending_review"}, title \in SlugTitles :
            handleSubmit(uid, status, title, TRUE)
       /\ Bounded

SpecSlug == Init /\ [][NextSlug]_vars

\* Two articles whose titles may give the same slug, and the edit form.
UniqueTitles == {<<"a">>, <<"A">>, <<"a", "!">>, <<"B">>}
BoundedLog == Len(activity_logs') <= MaxLog

NextUnique ==
    \/ /\ \E uid \in Users, status \in {"draft", "pending_review"}, title \in UniqueTitles :
            handleSubmit(uid, status, title, TRUE)
       /\ BoundedLog
    \/ \E c \in OneClient, uid \in Users, id \in ArticleIds : OpenEdit(c, uid, id)
    \/ /\ \E c \in OneClient, status \in {"draft", "pending_review"}, title \in UniqueTitles :
            handleSave(c, status, title, TRUE)
       /\ BoundedLog

SpecUnique == Init /\ [][NextUnique]_vars

\* One article taken through its life by an author and an admin, in one tab.
AuthorA == "u1"
AdminB == "u2"
BoundedLife == Len(activity_logs') <= MaxLifeLog /\ nextId' \in OneArticle

NextLifecycle ==
    \/ /\ \E uid \in {AuthorA, AdminB}, status \in {"draft", "pending_review"},
             title \in OneTitle :
            handleSubmit(uid, status, title, TRUE)
       /\ BoundedLife
    \/ \E c \in OneClient, uid \in {AuthorA, AdminB}, id \in ArticleIds :
            OpenEdit(c, uid, id)
    \/ /\ \E c \in OneClient, status \in {"draft", "pending_review"}, title \in Titles :
            handleSave(c, status, title, TRUE)
       /\ BoundedLife
    \/ \E c \in OneClient, uid \in {AuthorA, AdminB} : OpenAdmin(c, uid)
    \/ /\ \E c \in OneClient, id \in ArticleIds, status \in {"approved", "rejected"},
             reviewNotes \in Notes :
            handleReviewAction(c, id, status, reviewNotes, TRUE)
       /\ BoundedLife
    \/ /\ \E c \in OneClient, id \in ArticleIds : handlePublish(c, id, TRUE)
       /\ BoundedLife

SpecLifecycle == Init /\ [][NextLifecycle]_vars

\* The activity log listing over a log that the create and edit pages fill.
NextLogs ==
    \/ Tick
    \/ /\ \E uid \in Users, status \in {"draft", "pending_review"}, title \in OneTitle :
            handleSubmit(uid, status, title, TRUE)
       /\ Bounded
    \/ \E c \in OneClient, uid \in Users, id \in ArticleIds : OpenEdit(c, uid, id)
    \/ /\ \E c \in OneClient, status \in {"draft", "pending_review"}, title \in OneTitle :
            handleSave(c, status, title, TRUE)
       /\ Bounded
    \/ \E c \in OneClient, uid \in Users \cup {Null} : OpenLogs(c, uid)
    \/ \E c \in OneClient : fetchLogs(c)

SpecLogs == Init /\ [][NextLogs]_vars

\* The activity log listing under a profile that user management changes.
NextLogAccess ==
    \/ \E c \in Clients, uid \in Users : OpenUsers(c, uid)
    \/ /\ \E c \in Clients, userId \in Users, newRole \in UserRole :
            updateUserRole(c, userId, newRole, TRUE)
       /\ BoundedSetup
    \/ \E c \in Clients, uid \in Users \cup {Null} : OpenLogs(c, uid)
    \/ \E c \in Clients : fetchLogs(c)

SpecLogAccess == Init /\ [][NextLogAccess]_vars

\* Create, edit and delete of an author's articles, in one tab.
NextSlugFrame ==
    \/ /\ \E uid \in Users, status \in {"draft", "pending_review"}, title \in Titles :
            handleSubmit(uid, status, title, TRUE)
       /\ BoundedLog
    \/ \E c \in OneClient, uid \in Users, id \in ArticleIds : OpenEdit(c, uid, id)
    \/ /\ \E c \in OneClient, status \in {"draft", "pending_review"}, title \in Titles :
            handleSave(c, status, title, TRUE)
       /\ BoundedLog
    \/ \E c \in OneClient, uid \in Users : OpenArticles(c, uid, "articles_v2")
    \/ /\ \E c \in OneClient, id \in ArticleIds : deleteArticle(c, id, TRUE)
       /\ BoundedLog

SpecSlugFrame == Init /\ [][NextSlugFrame]_vars

\* The calls in flight of a run: at most MaxFetch of each kind per page.
BoundedFetch ==
    \A c \in Clients :
        /\ Len(page'[c].fetchProfile) <= MaxFetch
        /\ Len(page'[c].fetchArticle) <= MaxFetch

\* The hook alone: one mount per tab, auth events, and the fetches coming back.
NextAuth ==
    \/ \E c \in OneClient, s \in Users \cup {Null} :
            page[c].kind = "none" /\ useAuth(c, "hook", s, Null)
    \/ \E c \in OneClient, fresh \in BOOLEAN : getSession(c, fresh) /\ BoundedFetch
    \/ \E c \in OneClient, s \in Users \cup {Null}, fresh \in BOOLEAN :
            onAuthStateChange(c, s, fresh) /\ BoundedFetch
    \/ \E c \in OneClient, i \in 1..MaxFetch, outcome \in FetchOutcome :
            fetchProfile(c, i, outcome)

\* a call in flight comes back
Resolves ==
    \/ \E c \in OneClient, fresh \in BOOLEAN : getSession(c, fresh) /\ BoundedFetch
    \/ \E c \in OneClient, i \in 1..MaxFetch, outcome \in FetchOutcome :
            fetchProfile(c, i, outcome)

SpecAuth == Init /\ [][NextAuth]_vars /\ WF_vars(Resolves)

\* The article view page, both versions, with the hook step by step: an
\* author and an admin, one call of each kind in flight.
ViewUsers == {AuthorA, AdminB}
BoundedView ==
    \A c \in Clients :
        /\ Len(page'[c].fetchProfile) <= MaxViewFetch
        /\ Len(page'[c].fetchArticle) <= MaxViewFetch

NextView ==
    \/ /\ \E uid \in ViewUsers, status \in {"draft", "pending_review"}, title \in OneTitle :
            handleSubmit(uid, status, title, TRUE)
       /\ Bounded
    \/ \E c \in OneClient, kind \in {"view_v1", "view_v2"}, s \in ViewUsers \cup {Null},
          id \in ArticleIds :
            useAuth(c, kind, s, id)
    \/ \E c \in OneClient, fresh \in BOOLEAN : getSession(c, fresh) /\ BoundedView
    \/ \E c \in OneClient, s \in ViewUsers \cup {Null}, fresh \in BOOLEAN :
            onAuthStateChange(c, s, fresh) /\ BoundedView
    \/ \E c \in OneClient, i \in 1..MaxViewFetch, outcome \in FetchOutcome :
            fetchProfile(c, i, outcome) /\ BoundedView
    \/ \E c \in OneClient, j \in 1..MaxViewFetch : fetchArticle(c, j)

SpecView == Init /\ [][NextView]_vars

\* --------------------------------------------------------------- properties
\* the stored status of an article, NoRow while the row does not exist
StoredStatus(tbl, id) == IF id \in DOMAIN tbl THEN tbl[id].status ELSE NoRow

\* the edges of the transition table, NoRow standing for "(none)"
TransitionTable ==
    { <<NoRow, "draft">>,
      <<"draft", "pending_review">>,
      <<"rejected", "pending_review">>,
      <<"pending_review", "approved">>,
      <<"pending_review", "rejected">>,
      <<"approved", "published">> }

\* a review call of client c on article id
ReviewBy(c, id) ==
    \E status \in {"approved", "rejected"}, reviewNotes \in Notes :
        handleReviewAction(c, id, status, reviewNotes, TRUE)

\* a publish call of client c on article id
PublishBy(c, id) == handlePublish(c, id, TRUE) \/ publishArticle(c, id)

\* a save or submit call of client c from its edit form
SaveBy(c) ==
    \E status \in {"draft", "pending_review"}, title \in FormTitles :
        handleSave(c, status, title, TRUE)

\* C1: every change of an article's stored status is an edge of the
\* transition table: (none)->Draft, Draft->PendingReview,
\* Rejected->PendingReview, PendingReview->Approved, PendingReview->Rejected,
\* Approved->Published, and no other.
C1_StatusFollowsTable ==
    [][\A id \in ArticleIds :
          StoredStatus(articles, id) # StoredStatus(articles', id)
          => <<StoredStatus(articles, id), StoredStatus(articles', id)>>
                \in TransitionTable]_vars

\* C2: of two opposite review calls on the same PendingReview article one
\* wins; the call of the reviewer who still sees PendingReview while the
\* opposite decision is already stored does not report success and leaves
\* the winner's status, reviewer and notes in place.
C2_OneReviewWins ==
    [][\A c \in Clients, id \in ArticleIds,
          status \in {"approved", "rejected"}, reviewNotes \in Notes :
          ( /\ handleReviewAction(c, id, status, reviewNotes, TRUE)
            /\ StoredStatus(articles, id) \in {"approved", "rejected"} \ {status} )
          => (articles' = articles /\ toast' # "success")]_vars

\* C3: a write is conditioned on the status the caller observed: a save,
\* submit, review or publish from a page whose fetched status differs from
\* the stored status is not applied.
C3_WritesConditioned ==
    [][\A c \in Clients, id \in ArticleIds :
          ( /\ \/ SaveBy(c) /\ page[c].id = id
               \/ ReviewBy(c, id)
               \/ PublishBy(c, id)
            /\ page[c].snap[id] # StoredStatus(articles, id) )
          => articles' = articles]_vars

\* C4: Published is terminal: once the stored status of an article is
\* Published, no step changes it.
C4_PublishedTerminal ==
    [][\A id \in ArticleIds :
          StoredStatus(articles, id) = "published"
          => StoredStatus(articles', id) = "published"]_vars

\* C5: publishedAt is set at most once and never cleared: once an article
\* has a published_at value, no step changes or removes it.
C5_PublishedAtOnce ==
    [][\A id \in DOMAIN articles \cap DOMAIN articles' :
          articles[id].published_at # << >>
          => articles'[id].published_at = articles[id].published_at]_vars

\* C6: a role is changed only by an actor whose role is super_admin at the
\* time of the change, whether through user management or the setup page.
C6_RoleChangedBySuperAdmin ==
    [][user_profiles' # user_profiles
       => \E c \in Clients :
            /\ page[c].user \in Users
            /\ user_profiles[page[c].user] = "super_admin"
            /\ \/ runSetup(c)
               \/ \E userId \in Users, newRole \in UserRole :
                      updateUserRole(c, userId, newRole, TRUE)]_vars

\* C7: an illegal transition attempt applies nothing: an approve or reject
\* while the stored status is not PendingReview, or a publish while it is
\* not Approved, leaves every field of the article unchanged and appends no
\* audit entry.
C7_IllegalTransitionNoEffect ==
    [][\A c \in Clients, id \in ArticleIds :
          ( \/ ReviewBy(c, id) /\ StoredStatus(articles, id) # "pending_review"
            \/ PublishBy(c, id) /\ StoredStatus(articles, id) # "approved" )
          => (articles' = articles /\ activity_logs' = activity_logs)]_vars

\* C8: an update changes an article only when, as the write is applied, the
\* actor owns it and its stored status is Draft or Rejected; otherwise it
\* changes nothing.
C8_UpdateOnlyOwnDraftOrRejected ==
    [][\A c \in Clients :
          ( /\ SaveBy(c)
            /\ ~ ( /\ page[c].id \in DOMAIN articles
                   /\ articles[page[c].id].author_id = page[c].user
                   /\ articles[page[c].id].status \in {"draft", "rejected"} ) )
          => articles' = articles]_vars

\* C9: an article is removed only by a delete call of its owner while its
\* stored status is Draft or Rejected; a PendingReview, Approved or Published
\* article is never removed.
C9_DeleteOnlyOwnDraftOrRejected ==
    [][\A id \in DOMAIN articles :
          id \notin DOMAIN articles'
          => /\ articles[id].status \in {"draft", "rejected"}
             /\ \E c \in Clients :
                  /\ page[c].user = articles[id].author_id
                  /\ \/ deleteArticleUnlogged(c, id)
                     \/ deleteArticle(c, id, TRUE)]_vars

\* C10: approve, reject and publish are applied only for an actor whose role
\* is admin or super_admin as the call is made: a call by an actor whose
\* role is now author, demoted after the page loaded, changes no article.
C10_ReviewNeedsCurrentAdmin ==
    [][\A c \in Clients, id \in ArticleIds :
          ( /\ ReviewBy(c, id) \/ PublishBy(c, id)
            /\ user_profiles[page[c].user] = "author" )
          => articles' = articles]_vars

\* the audit action the code names for a write that stores status new,
\* NoRow for a removed row
AuditActions(new) ==
    IF new = NoRow THEN {"article_deleted"}
    ELSE IF new = "draft" THEN {"article_drafted", "article_updated"}
    ELSE IF new = "pending_review" THEN {"article_submitted"}
    ELSE IF new = "approved" THEN {"article_approved"}
    ELSE IF new = "rejected" THEN {"article_rejected"}
    ELSE {"article_published"}

\* the step appends exactly one entry, for resource id, by a signed-in user,
\* with one of the given actions
OneEntryAppended(id, actions) ==
    /\ Len(activity_logs') = Len(activity_logs) + 1
    /\ SubSeq(activity_logs', 1, Len(activity_logs)) = activity_logs
    /\ activity_logs'[Len(activity_logs')].resource_id = id
    /\ activity_logs'[Len(activity_logs')].action \in actions
    /\ activity_logs'[Len(activity_logs')].user_id \in Users

\* C11: every successful mutating call produces exactly one audit entry
\* naming the caller, the operation and the affected article: a step that
\* changes or removes an article appends one entry for that article.
C11_OneEntryPerMutation ==
    [][\A id \in ArticleIds :
          ( \/ id \in DOMAIN articles /\ id \notin DOMAIN articles'
            \/ id \in DOMAIN articles' /\ id \notin DOMAIN articles
            \/ /\ id \in DOMAIN articles /\ id \in DOMAIN articles'
               /\ articles'[id] # articles[id] )
          => OneEntryAppended(id, AuditActions(StoredStatus(articles', id)))]_vars

\* a handler's write of status to article id is applied and its log call fails
AuditFailedWrite(id, status) ==
    \/ /\ nextId <= Len(ArticleSeq)
       /\ id = ArticleSeq[nextId]
       /\ \E uid \in Users, title \in Titles :
            /\ handleSubmit(uid, status, title, FALSE)
            /\ \A x \in DOMAIN articles : articles[x].slug # generateSlug(title)
    \/ /\ id \in DOMAIN articles
       /\ \E c \in Clients :
            /\ page[c].user \in Users
            /\ RlsArticleUpdate(page[c].user, articles[id])
            /\ \/ /\ page[c].id = id
                  /\ \E title \in Titles : handleSave(c, status, title, FALSE)
               \/ \E reviewNotes \in Notes :
                     handleReviewAction(c, id, status, reviewNotes, FALSE)
               \/ status = "published" /\ handlePublish(c, id, FALSE)

\* C12: a failed audit write never blocks or rolls back the transition: when
\* a handler's article write is applied and its log call fails, the stored
\* article has the new status and the call reports success.
C12_AuditFailureKeepsWrite ==
    [][\A id \in ArticleIds, status \in ArticleStatus :
          AuditFailedWrite(id, status)
          => (StoredStatus(articles', id) = status /\ toast' = "success")]_vars

\* C12 witness: an article stands approved after a call that reported
\* success, and the log holds no article_approved entry for it.
C12_Witness ==
    \E id \in DOMAIN articles :
        /\ articles[id].status = "approved"
        /\ toast = "success"
        /\ \A i \in 1..Len(activity_logs) :
              ~ ( /\ activity_logs[i].action = "article_approved"
                  /\ activity_logs[i].resource_id = id )

\* C13: a failed audit write is reported: when a handler's article write is
\* applied and its log call fails, the call reports a warning to the caller
\* instead of plain success.
C13_AuditFailureReported ==
    [][\A id \in ArticleIds, status \in ArticleStatus :
          AuditFailedWrite(id, status) => toast' = "warning"]_vars

\* C14: a create call always stores the new article with status Draft and
\* with author_id set to the actor; never with any other initial status.
C14_CreateStoresDraft ==
    [][\A id \in DOMAIN articles' \ DOMAIN articles :
          /\ articles'[id].status = "draft"
          /\ \E uid \in Users, status \in {"draft", "pending_review"}, title \in Titles :
                /\ handleSubmit(uid, status, title, TRUE)
                /\ articles'[id].author_id = uid]_vars

\* a letter or a digit
IsAlnum(ch) == ch \in LowerCase \cup UpperCase \cup Digits

\* the j-th smallest element of a set of numbers, as a sequence
SortedSeq(S) ==
    [j \in 1..Cardinality(S) |->
        CHOOSE i \in S : Cardinality({x \in S : x < i}) = j - 1]

\* title lowercased with each maximal run of non-alphanumeric characters
\* replaced by one hyphen
HyphenatedRuns(title) ==
    LET first == {i \in 1..Len(title) :
                    IsAlnum(title[i]) \/ i = 1 \/ IsAlnum(title[i - 1])}
        at == SortedSeq(first)
    IN  [j \in 1..Len(at) |->
            IF IsAlnum(title[at[j]]) THEN toLowerCase(title[at[j]]) ELSE "-"]

\* s without its leading and trailing hyphens
RECURSIVE StripHyphens(_)
StripHyphens(s) ==
    IF s # << >> /\ Head(s) = "-" THEN StripHyphens(Tail(s))
    ELSE IF s # << >> /\ s[Len(s)] = "-" THEN StripHyphens(SubSeq(s, 1, Len(s) - 1))
    ELSE s

\* title lowercased, the characters that are neither alphanumeric nor white
\* space dropped, then each maximal run of white space replaced by one hyphen
SpacesHyphenated(title) ==
    LET k == SelectSeq(title, LAMBDA ch : IsAlnum(ch) \/ ch \in WhiteSpace)
        first == {i \in 1..Len(k) :
                    IsAlnum(k[i]) \/ i = 1 \/ IsAlnum(k[i - 1])}
        at == SortedSeq(first)
    IN  [j \in 1..Len(at) |->
            IF IsAlnum(k[at[j]]) THEN toLowerCase(k[at[j]]) ELSE "-"]

\* C15 as stated: the stored slug is the title lowercased with each run of
\* non-alphanumeric characters replaced by a hyphen (read with or without a
\* hyphen for a run at either end of the title).
C15_SlugHyphenatesRuns ==
    \A id \in DOMAIN articles :
        articles[id].slug \in { HyphenatedRuns(articles[id].title),
                                StripHyphens(HyphenatedRuns(articles[id].title)) }

\* C15 amended: the stored slug is the title lowercased, with every character
\* that is neither alphanumeric nor white space removed and each run of white
\* space replaced by one hyphen; it holds only lowercase letters, digits and
\* hyphens, and "Hello World!" gives "hello-world".
C15_SlugDropsPunctuation ==
    \A id \in DOMAIN articles :
        /\ articles[id].slug = SpacesHyphenated(articles[id].title)
        /\ \A i \in 1..Len(articles[id].slug) :
              articles[id].slug[i] \in LowerCase \cup Digits \cup {"-"}
        /\ articles[id].title = HelloWorld
           => articles[id].slug = <<"h", "e", "l", "l", "o", "-", "w", "o", "r", "l", "d">>

\* C15 witness: an article created with a title in which punctuation lies
\* between two letters and one created with the title "Hello World!".
C15_Witness ==
    \E id \in DOMAIN articles :
        articles[id].title \in {HelloWorld, <<"a", "!", "B">>}

\* C16: slugs are unique across stored articles, and a create whose slug
\* equals that of a stored article reports an error, stores nothing, leaves
\* the stored articles unchanged and appends no audit entry.
C16_SlugsUnique ==
    [][ /\ \A x, y \in DOMAIN articles' :
              x # y => articles'[x].slug # articles'[y].slug
        /\ \A uid \in Users, status \in {"draft", "pending_review"},
              title \in UniqueTitles :
              ( /\ handleSubmit(uid, status, title, TRUE)
                /\ \E x \in DOMAIN articles : articles[x].slug = generateSlug(title) )
              => ( /\ articles' = articles
                   /\ activity_logs' = activity_logs
                   /\ toast' = "error" ) ]_vars

\* C16 witness: one article is stored and a second create, of a title with
\* the same slug, has just been refused.
C16_Witness ==
    /\ DOMAIN articles = {"a1"}
    /\ articles["a1"].title = <<"a">>
    /\ toast = "error"
    /\ Len(activity_logs) = 1

\* the audit entries of the lifecycle, in order: who does what to article a1
LifecycleScript ==
    << <<AuthorA, "article_drafted">>, <<AuthorA, "article_submitted">>,
       <<AdminB, "article_rejected">>, <<AuthorA, "article_submitted">>,
       <<AdminB, "article_approved">>, <<AdminB, "article_published">> >>

\* the status the lifecycle states after each of its steps
LifecycleStatus ==
    <<"draft", "pending_review", "rejected", "pending_review", "approved", "published">>

\* log holds exactly the first k steps of the lifecycle, on article a1
LifecycleDone(log, k) ==
    /\ Len(log) = k
    /\ \A i \in 1..k :
          /\ log[i].user_id = LifecycleScript[i][1]
          /\ log[i].action = LifecycleScript[i][2]
          /\ log[i].resource_id = "a1"

\* C17: the lifecycle runs in order and every step gives the stated result:
\* create (Draft), submit (PendingReview), reject with notes (Rejected,
\* reviewer B, those notes), edit and resubmit (PendingReview), approve
\* (Approved), publish (Published, published_at set); each call reports
\* success.
C17_LifecycleSteps ==
    [][\A k \in 1..Len(LifecycleScript) :
          ( LifecycleDone(activity_logs, k - 1) /\ LifecycleDone(activity_logs', k) )
          => /\ StoredStatus(articles', "a1") = LifecycleStatus[k]
             /\ toast' = "success"
             /\ articles'["a1"].author_id = AuthorA
             /\ k = 3 => \E reviewNotes \in Notes :
                            /\ handleReviewAction("c1", "a1", "rejected", reviewNotes, TRUE)
                            /\ articles'["a1"].reviewed_by = AdminB
                            /\ articles'["a1"].review_notes = reviewNotes
             /\ (k = 6) = (articles'["a1"].published_at # << >>)]_vars

\* C17 witness: the six steps have run and the article stands published,
\* reviewed by B, with published_at set.
C17_Witness ==
    /\ LifecycleDone(activity_logs, Len(LifecycleScript))
    /\ StoredStatus(articles, "a1") = "published"
    /\ articles["a1"].published_at # << >>
    /\ articles["a1"].reviewed_by = AdminB

\* a sequence in reverse order
Reverse(rows) == [i \in 1..Len(rows) |-> rows[Len(rows) + 1 - i]]

\* C18: the listing returns at most 100 entries, most recent first, in
\* strictly descending (createdAt, sequence) order: the entries come back in
\* the reverse of the order in which they were appended, also those appended
\* within one clock tick.
C18_ListingNewestFirst ==
    [][\A c \in Clients :
          fetchLogs(c)
          => /\ Len(page'[c].logs) <= LogLimit
             /\ page'[c].logs =
                  Limit(Reverse(SelectSeq(activity_logs,
                           LAMBDA row : RlsLogSelect(page[c].user, row))),
                        LogLimit)]_vars

\* C19: the audit log is read only by a super admin: the read is issued only
\* for an actor whose role is super_admin as it is issued, and nobody else,
\* signed in or not, obtains an entry.
C19_LogReadBySuperAdminOnly ==
    [][\A c \in Clients :
          ( fetchLogs(c) \/ page'[c].logs # << >> )
          => /\ page[c].user \in Users
             /\ user_profiles[page[c].user] = "super_admin"]_vars

\* C20: the audit log is append-only: every step of every operation leaves
\* the entries already in the log in place and unchanged, and at most adds
\* entries after them.
C20_LogAppendOnly ==
    [][/\ Len(activity_logs') >= Len(activity_logs)
       /\ SubSeq(activity_logs', 1, Len(activity_logs)) = activity_logs]_vars

\* C20 witness: an entry was appended to a log that already held one, after
\* an article was edited, and the earlier entry is still the first.
C20_Witness ==
    /\ Len(activity_logs) >= 2
    /\ activity_logs[1].action \in {"article_drafted", "article_submitted"}
    /\ activity_logs[2].action = "article_updated"

\* the review fields of a stored row
ReviewFields(row) == <<row.reviewed_by, row.review_notes>>

\* C21: reviewerId and reviewNotes are written only by approve and reject: a
\* created row has neither, and every change of either field on a stored row
\* is made by a review call and comes with a change of the row's status to
\* Approved or to Rejected.
C21_ReviewFieldsOnlyWithDecision ==
    [][\A id \in ArticleIds :
          /\ (id \notin DOMAIN articles /\ id \in DOMAIN articles')
             => ReviewFields(articles'[id]) = <<Null, Null>>
          /\ ( /\ id \in DOMAIN articles
               /\ id \in DOMAIN articles'
               /\ ReviewFields(articles'[id]) # ReviewFields(articles[id]) )
             => /\ \E c \in Clients : ReviewBy(c, id)
                /\ articles'[id].status \in {"approved", "rejected"}
                /\ articles'[id].status # articles[id].status]_vars

\* C22: authorId is immutable: a created row has the creating actor as its
\* author, and no later step (update, submit, review, publish, by any role)
\* changes the author of a stored row.
C22_AuthorImmutable ==
    [][\A id \in ArticleIds :
          /\ (id \notin DOMAIN articles /\ id \in DOMAIN articles')
             => \E uid \in Users, status \in {"draft", "pending_review"}, title \in Titles :
                   /\ handleSubmit(uid, status, title, TRUE)
                   /\ articles'[id].author_id = uid
          /\ (id \in DOMAIN articles /\ id \in DOMAIN articles')
             => articles'[id].author_id = articles[id].author_id]_vars

\* C22 witness: an article of author AuthorA was edited, reviewed and
\* published by admin AdminB and still has AuthorA as its author.
C22_Witness ==
    \E id \in DOMAIN articles :
        /\ articles[id].author_id = AuthorA
        /\ articles[id].reviewed_by = AdminB
        /\ articles[id].status = "published"
        /\ articles[id].title = <<"B">>

\* C23: capabilities grow with role: an admin or super admin has every
\* author capability on any article, so for an admin who opens the edit page
\* of a Draft or Rejected article, their own or not, the form is loaded with
\* that article, from which the update is made.
C23_AdminEditsAnyDraft ==
    [][\A c \in Clients, uid \in Users, id \in ArticleIds :
          ( /\ OpenEdit(c, uid, id)
            /\ IsAdminRole(uid)
            /\ StoredStatus(articles, id) \in {"draft", "rejected"} )
          => /\ page'[c].kind = "edit"
             /\ page'[c].id = id]_vars

\* the update of client c on article id reaches the row
UpdateReaches(c, id) ==
    id \in DOMAIN articles /\ RlsArticleUpdate(page[c].user, articles[id])

\* C25: every successful approve or reject stores the acting admin as
\* reviewer, the notes given and the time of the call as updatedAt; every
\* successful publish stores the time of the call as publishedAt and as
\* updatedAt; the updatedAt of a published article is never older than its
\* publishedAt.
C25_DecisionAndPublishStamped ==
    [][\A c \in Clients, id \in ArticleIds :
          /\ \A status \in {"approved", "rejected"}, reviewNotes \in Notes :
                ( handleReviewAction(c, id, status, reviewNotes, TRUE)
                  /\ UpdateReaches(c, id) )
                => /\ articles'[id].reviewed_by = page[c].user
                   /\ articles'[id].review_notes = reviewNotes
                   /\ articles'[id].updated_at = now
          /\ (PublishBy(c, id) /\ UpdateReaches(c, id))
             => /\ articles'[id].published_at = <<now>>
                /\ articles'[id].updated_at = now
          /\ (id \in DOMAIN articles' /\ articles'[id].status = "published")
             => /\ articles'[id].published_at # << >>
                /\ articles'[id].updated_at >= articles'[id].published_at[1]]_vars

\* C26: resubmitting a Rejected article retains the prior review: the save
\* from the edit form that moves a row from Rejected to PendingReview leaves
\* its reviewer and its review notes as the rejecting admin set them.
C26_ResubmitKeepsReview ==
    [][\A c \in Clients, id \in ArticleIds :
          ( /\ SaveBy(c)
            /\ page[c].id = id
            /\ StoredStatus(articles, id) = "rejected"
            /\ StoredStatus(articles', id) = "pending_review" )
          => ReviewFields(articles'[id]) = ReviewFields(articles[id])]_vars

\* C26 witness: an article rejected by AdminB with notes is pending review
\* again under a new title, with AdminB's review still on it.
C26_Witness ==
    \E id \in DOMAIN articles :
        /\ articles[id].status = "pending_review"
        /\ articles[id].title = <<"B">>
        /\ ReviewFields(articles[id]) = <<AdminB, "needs sources">>
        /\ Len(activity_logs) >= 3
        /\ activity_logs[Len(activity_logs)].action = "article_submitted"
        /\ activity_logs[Len(activity_logs) - 1].action = "article_rejected"

\* the slugs in use
SlugsInUse(tbl) == {tbl[id].slug : id \in DOMAIN tbl}

\* C28: an update never changes an article's slug: a created row gets the
\* slug of its title, every later step leaves the slug of a stored row as it
\* is, also when the title is edited, and the set of slugs in use changes only
\* in a step that creates or deletes a row.
C28_SlugFrozenAtCreate ==
    [][/\ \A id \in ArticleIds :
            /\ (id \notin DOMAIN articles /\ id \in DOMAIN articles')
               => articles'[id].slug = generateSlug(articles'[id].title)
            /\ (id \in DOMAIN articles /\ id \in DOMAIN articles')
               => articles'[id].slug = articles[id].slug
       /\ SlugsInUse(articles') # SlugsInUse(articles)
          => DOMAIN articles' # DOMAIN articles]_vars

\* C28 witness: a row created under the title "a" was saved under the title
\* "B" and still has the slug of "a", while a second row exists.
C28_Witness ==
    /\ "a1" \in DOMAIN articles
    /\ articles["a1"].title = <<"B">>
    /\ articles["a1"].slug = <<"a">>
    /\ "a2" \in DOMAIN articles

\* the accounts with role super_admin
SuperAdmins(tbl) == {uid \in DOMAIN tbl : tbl[uid] = "super_admin"}

\* C27: at most one account is made super admin automatically: an account
\* that runs the setup page while another account exists keeps its role, so a
\* setup run never adds a super admin, also when it is started before the
\* database status check has finished.
C27_SetupKeepsRole ==
    [][\A c \in Clients :
          ( runSetup(c) /\ DOMAIN user_profiles # {page[c].user} )
          => /\ user_profiles'[page[c].user] = user_profiles[page[c].user]
             /\ SuperAdmins(user_profiles') = SuperAdmins(user_profiles)]_vars

\* the article of the view page in tab c is on display
Shown(p) == p.kind \in {"view_v1", "view_v2"} /\ p.snap[p.id] # NoRow

\* C24: when the fetch of an existing article comes back to a signed-in
\* user, an admin or super admin is shown the article and so is its author,
\* in every status and however the session and profile loading went before;
\* an author who is not the owner is not shown it.
C24_ViewByAdminOrOwner ==
    [][\A c \in Clients :
          ( /\ \E j \in 1..MaxViewFetch : fetchArticle(c, j)
            /\ page[c].id \in DOMAIN articles
            /\ page[c].session \in Users )
          => LET u == page[c].session
                 row == articles[page[c].id]
             IN  /\ (IsAdminRole(u) \/ row.author_id = u) => Shown(page'[c])
                 /\ (~IsAdminRole(u) /\ row.author_id # u) => ~Shown(page'[c])]_vars

\* C29: a signed-out session keeps no profile: whenever the session lookup
\* has come back, the session is gone and no fetchProfile is in flight, the
\* hook holds no profile and hasRole is false for every role, also when a
\* fetchProfile started before the sign-out came back after it.
C29_SignedOutHasNoProfile ==
    \A c \in Clients :
        ( /\ page[c].kind \in HookKinds
          /\ ~page[c].getSession
          /\ page[c].session = Null
          /\ page[c].fetchProfile = << >> )
        => /\ page[c].profile_id = Null
           /\ ~hasRole(page[c], UserRole)

====
